---- MODULE Spec2Model ----
(***************************************************************************)
(* phablytics: the command line driver (phablytics.py) and the two report  *)
(* generators (phablytics/reports.py), as one state machine.               *)
(*                                                                         *)
(* A report is a list of lines; a line is a sequence of string tokens, one *)
(* token per literal piece or interpolated field of the f-string that      *)
(* builds it.  The returned text is the lines joined by newline tokens.    *)
(* The backquote character of the markup is written <bq> in the tokens.    *)
(***************************************************************************)
EXTENDS Integers, Sequences, FiniteSets, TLC

(* Bounds of the model. *)
MaxRevisions == 3
MaxReviewedRevisions == 1
MaxReusedRevisions == 1
MaxTasks == 3
MaxReusedTasks == 1
MaxCalls == 2

None == "None"

Users == {"PHID-USER-1", "PHID-USER-2"}
Repos == {"PHID-REPO-1", "PHID-REPO-2"}
Timestamps == {10, 20}

(* ----------------------------------------------------------------------- *)
(* Sequence helpers (Python list and str operations).                      *)
(* ----------------------------------------------------------------------- *)

Range(s) == {s[k] : k \in 1..Len(s)}

(* sep.join(parts) where every part is one token *)
RECURSIVE JoinTokens(_, _)
JoinTokens(sep, parts) ==
    IF Len(parts) = 0 THEN <<>>
    ELSE IF Len(parts) = 1 THEN <<parts[1]>>
    ELSE <<parts[1], sep>> \o JoinTokens(sep, Tail(parts))

(* '\n'.join(report): the lines' tokens with a newline token between lines *)
RECURSIVE JoinLines(_)
JoinLines(lines) ==
    IF Len(lines) = 0 THEN <<>>
    ELSE IF Len(lines) = 1 THEN lines[1]
    ELSE lines[1] \o <<"\n">> \o JoinLines(Tail(lines))

(* sorted(revs, key=lambda r: r.modified_ts): stable, ascending *)
RECURSIVE InsertAscending(_, _)
InsertAscending(r, s) ==
    IF s = <<>> THEN <<r>>
    ELSE IF s[Len(s)].modified_ts <= r.modified_ts THEN Append(s, r)
    ELSE Append(InsertAscending(r, SubSeq(s, 1, Len(s) - 1)), s[Len(s)])

RECURSIVE SortedAscending(_)
SortedAscending(revs) ==
    IF revs = <<>> THEN <<>>
    ELSE InsertAscending(revs[Len(revs)], SortedAscending(SubSeq(revs, 1, Len(revs) - 1)))

(* mutant: reverse=True forgotten *)
SortedWithoutReverse(revs) == SortedAscending(revs)

(* sorted(revs, key=lambda r: r.modified_ts, reverse=True): stable, descending *)
RECURSIVE InsertDescending(_, _)
InsertDescending(r, s) ==
    IF s = <<>> THEN <<r>>
    ELSE IF s[Len(s)].modified_ts >= r.modified_ts THEN Append(s, r)
    ELSE Append(InsertDescending(r, SubSeq(s, 1, Len(s) - 1)), s[Len(s)])

RECURSIVE SortedDescending(_)
SortedDescending(revs) ==
    IF revs = <<>> THEN <<>>
    ELSE InsertDescending(revs[Len(revs)], SortedDescending(SubSeq(revs, 1, Len(revs) - 1)))

(* ----------------------------------------------------------------------- *)
(* Records the collaborators hand to the reports.                          *)
(* ----------------------------------------------------------------------- *)

(* A Revision as reports.py reads it; its three identifier lists are       *)
(* independent fields of the record.                                       *)
Revision(k, attrs) ==
    [revision_id |-> "D" \o ToString(k),
     title |-> "title-" \o ToString(k),
     url |-> "https://phab/D" \o ToString(k),
     modified_ts |-> attrs.modified_ts,
     author_phid |-> attrs.author_phid,
     reviewer_phids |-> attrs.reviewer_phids,
     acceptor_phids |-> attrs.acceptor_phids,
     blocker_phids |-> attrs.blocker_phids,
     repo_phid |-> attrs.repo_phid,
     meets_acceptance_criteria |-> attrs.meets_acceptance_criteria,
     is_wip |-> attrs.is_wip]

(* the k-th fetched revision is D<k> *)
Revisions(attrs) == [k \in 1..Len(attrs) |-> Revision(k, attrs[k])]

(* identifier lists in the tracker's order, without repetition *)
PhidLists == {<<>>, <<"PHID-USER-1">>, <<"PHID-USER-2">>, <<"PHID-USER-1", "PHID-USER-2">>}

(* Fetch results that vary timestamp, flags and author. *)
StatusAttrs ==
    [modified_ts : Timestamps, author_phid : Users, reviewer_phids : {<<>>},
     acceptor_phids : {<<>>}, blocker_phids : {<<>>}, repo_phid : {"PHID-REPO-1"},
     meets_acceptance_criteria : BOOLEAN, is_wip : BOOLEAN]

(* Fetch results that vary the reviewer, acceptor and blocker lists. *)
ReviewAttrs ==
    [modified_ts : {10}, author_phid : {"PHID-USER-1"}, reviewer_phids : PhidLists,
     acceptor_phids : PhidLists, blocker_phids : PhidLists, repo_phid : {"PHID-REPO-1"},
     meets_acceptance_criteria : BOOLEAN, is_wip : BOOLEAN]

(* Fetch results for repeated calls. *)
ReuseAttrs ==
    [modified_ts : {10}, author_phid : {"PHID-USER-1"}, reviewer_phids : {<<>>},
     acceptor_phids : {<<>>}, blocker_phids : {<<>>}, repo_phid : Repos,
     meets_acceptance_criteria : BOOLEAN, is_wip : {FALSE}]

User(phid) == [phid |-> phid, name |-> "name-of-" \o phid]
Repo(phid) == [phid |-> phid, readable_name |-> "repo-" \o phid]

(* What a batch lookup may return for the identifiers it is given: an      *)
(* entry for each of them, or a table that lacks one of them.              *)
LookupDomains(phids) ==
    {Range(phids)} \cup {Range(phids) \ {m} : m \in Range(phids)}

UsersLookups(phids) == {[p \in S |-> User(p)] : S \in LookupDomains(phids)}
ReposLookups(phids) == {[p \in S |-> Repo(p)] : S \in LookupDomains(phids)}

(* Command line arguments as parse_args leaves them on the CLI object. *)
ReportTypeChoices == {"RevisionStatus", "UpcomingProjectTasksDue"}

Args ==
    [test : BOOLEAN, adhoc : BOOLEAN, whoami : BOOLEAN,
     report_type : ReportTypeChoices \cup {None}, slack : BOOLEAN]

(* get_report_types().get(report_type) *)
get_report_types == [t \in ReportTypeChoices |-> t]
ReportClass(report_type) ==
    IF report_type \in DOMAIN get_report_types THEN get_report_types[report_type] ELSE None

NoArgs == [test |-> FALSE, adhoc |-> FALSE, whoami |-> FALSE,
           report_type |-> None, slack |-> FALSE]

(* A Task as reports.py reads it. *)
Task(k) ==
    [id_ |-> k, task_id |-> "T" \o ToString(k), name |-> "task-" \o ToString(k),
     url |-> "https://phab/T" \o ToString(k)]

TaskIds == 1..MaxTasks

(* Task fetch results: any tasks of the project, in the order the fetch chose. *)
TaskLists ==
    UNION {{[k \in 1..n |-> Task(f[k])] :
              f \in {g \in [1..n -> TaskIds] : \A i, j \in 1..n : i # j => g[i] # g[j]}} :
           n \in 0..MaxTasks}

(* A ProjectColumn as reports.py reads it. *)
ProjectColumn(name) == [phid |-> "PHID-PCOL-" \o name, name |-> name]

ColumnNameLists == {<<>>, <<"Backlog">>, <<"Backlog", "Doing">>}

(* Column lookup results: columns of the given names, in the order the lookup chose. *)
ColumnLists(names) ==
    UNION {{[k \in 1..n |-> ProjectColumn(f[k])] :
              f \in {g \in [1..n -> Range(names)] : \A i, j \in 1..n : i # j => g[i] # g[j]}} :
           n \in 0..Len(names)}

(* custom_exclusion(task), for the predicates a settings module may list,   *)
(* by name                                                                 *)
CustomExclusion(name, task) ==
    IF name = "is_first_task" THEN task.id_ = 1 ELSE task.id_ % 2 = 0

Settings ==
    [project_name : {"Project"},
     column_names : ColumnNameLists,
     order : {"created"},
     excluded_tasks : SUBSET TaskIds,
     custom_exclusions : {<<>>, <<"is_first_task">>, <<"has_even_id">>,
                          <<"is_first_task", "has_even_id">>}]

(* Settings and task fetch results for repeated calls. *)
ReuseSettings ==
    [project_name : {"Project"},
     column_names : {<<>>, <<"Backlog">>},
     order : {"created"},
     excluded_tasks : {{1}},
     custom_exclusions : {<<"has_even_id">>}]

ReuseTaskLists == {tasks \in TaskLists : Len(tasks) <= MaxReusedTasks}

NoSettings ==
    [project_name |-> "Project", column_names |-> <<>>, order |-> "created",
     excluded_tasks |-> {}, custom_exclusions |-> <<>>]

(* ----------------------------------------------------------------------- *)
(* State.                                                                  *)
(* ----------------------------------------------------------------------- *)

VARIABLES
    pc,                 \* position of the process: in execute or in generate_report
    args,               \* the parsed command line
    ncalls,             \* generate_report calls made so far
    repo_phids,         \* RevisionStatusReport.repo_phids
    user_phids,         \* RevisionStatusReport.user_phids
    repos_lookup,       \* RevisionStatusReport.repos_lookup (<<>> stands for None)
    users_lookup,       \* RevisionStatusReport.users_lookup (<<>> stands for None)
    active_revisions,   \* generate_report local: the fetched revisions
    scanned,            \* generate_report local: revisions the for loop has passed
    revisions_accepted, \* generate_report local
    revisions_todo,     \* generate_report local
    report,             \* generate_report local: the lines appended so far
    report_string,      \* <<text>> once generate_report has returned text, else <<>>
    calls,              \* collaborator calls issued by the current generate_report
    results,            \* every completed call: what it was given and what it returned
    settings,           \* phablytics.settings as the task report reads it
    columns,            \* task report local: the columns the lookup returned
    column_phids,       \* task report local
    maniphest_tasks,    \* task report local: the fetched tasks
    stdout,             \* texts printed
    slack_messages      \* texts sent with slack_message

rsvars == <<repo_phids, user_phids, repos_lookup, users_lookup>>
locals == <<active_revisions, scanned, revisions_accepted, revisions_todo, report,
            columns, column_phids, maniphest_tasks>>
outputs == <<stdout, slack_messages>>
vars == <<pc, args, ncalls, rsvars, locals, report_string, calls, results, settings, outputs>>

Init ==
    /\ pc = "start"
    /\ args = NoArgs
    /\ ncalls = 0
    /\ repo_phids = <<>>
    /\ user_phids = <<>>
    /\ repos_lookup = <<>>
    /\ users_lookup = <<>>
    /\ active_revisions = <<>>
    /\ scanned = 0
    /\ revisions_accepted = <<>>
    /\ revisions_todo = <<>>
    /\ report = <<>>
    /\ report_string = <<>>
    /\ calls = <<>>
    /\ results = {}
    /\ settings = NoSettings
    /\ columns = <<>>
    /\ column_phids = <<>>
    /\ maniphest_tasks = <<>>
    /\ stdout = <<>>
    /\ slack_messages = <<>>

(* mutant: the exception caught inside generate_report, which then returns *)
(* the lines it has so far                                                 *)
RaiseSwallowed ==
    /\ pc' = "returned"
    /\ report_string' = <<JoinLines(report)>>
    /\ UNCHANGED <<args, ncalls, locals, results, settings, outputs>>

(* An exception leaves generate_report and execute: the frame's locals are *)
(* gone, nothing is returned, the process ends with a traceback.           *)
Raise ==
    /\ pc' = "aborted"
    /\ active_revisions' = <<>>
    /\ scanned' = 0
    /\ revisions_accepted' = <<>>
    /\ revisions_todo' = <<>>
    /\ report' = <<>>
    /\ columns' = <<>>
    /\ column_phids' = <<>>
    /\ maniphest_tasks' = <<>>
    /\ UNCHANGED <<args, ncalls, report_string, results, settings, outputs>>

(* RevisionStatusReport.__init__ *)
NewRevisionStatusReport ==
    /\ repo_phids' = <<>>
    /\ user_phids' = <<>>
    /\ repos_lookup' = <<>>
    /\ users_lookup' = <<>>

(* Entry into generate_report: a new frame, nothing returned yet.  The     *)
(* name report is bound later, by the statement report = [].               *)
EnterGenerateReport ==
    /\ ncalls' = ncalls + 1
    /\ calls' = <<>>
    /\ report_string' = <<>>
    /\ active_revisions' = <<>>
    /\ scanned' = 0
    /\ revisions_accepted' = <<>>
    /\ revisions_todo' = <<>>
    /\ report' = report
    /\ columns' = <<>>
    /\ column_phids' = <<>>
    /\ maniphest_tasks' = <<>>

(* PhablyticsCLI.execute up to the call of generate_report.  The settings  *)
(* module is read-only configuration; the model fixes its values when the  *)
(* process first constructs the report that reads them.                    *)
Execute(configurable) ==
    /\ pc = "start"
    /\ \E a \in Args :
        /\ args' = a
        /\ IF a.test
           THEN /\ pc' = "done"
                /\ UNCHANGED <<ncalls, rsvars, locals, report_string, calls, settings, outputs>>
           ELSE IF a.adhoc
           THEN /\ pc' = "done"
                /\ stdout' = Append(stdout, <<"adhoc-response">>)
                /\ UNCHANGED <<ncalls, rsvars, locals, report_string, calls, settings,
                               slack_messages>>
           ELSE IF a.whoami
           THEN /\ pc' = "done"
                /\ stdout' = Append(stdout, <<"whoami-raw-data">>)
                /\ UNCHANGED <<ncalls, rsvars, locals, report_string, calls, settings,
                               slack_messages>>
           ELSE IF a.report_type # None /\ ReportClass(a.report_type) = "RevisionStatus"
           THEN /\ pc' = "rs_fetch"
                /\ NewRevisionStatusReport
                /\ EnterGenerateReport
                /\ UNCHANGED <<settings, outputs>>
           ELSE IF a.report_type # None /\ ReportClass(a.report_type) = "UpcomingProjectTasksDue"
           THEN /\ pc' = "up_columns"
                /\ \E cfg \in configurable : settings' = cfg
                /\ EnterGenerateReport
                /\ UNCHANGED <<rsvars, outputs>>
           ELSE /\ pc' = "done"
                /\ UNCHANGED <<ncalls, rsvars, locals, report_string, calls, settings, outputs>>
    /\ UNCHANGED results

(* ----------------------------------------------------------------------- *)
(* RevisionStatusReport.generate_report                                    *)
(* ----------------------------------------------------------------------- *)

(* fetch_differential_revisions returns; the order of its results is its   *)
(* own.  The query key and the cutoff date it is given are constants of    *)
(* the run and are left out of the call record.                            *)
FetchRevisions(attrSet, maxLen) ==
    /\ pc = "rs_fetch"
    /\ \E n \in 0..maxLen : \E attrs \in [1..n -> attrSet] :
          active_revisions' = Revisions(attrs)
    /\ calls' = Append(calls, [fn |-> "fetch_differential_revisions", arg |-> <<>>])
    /\ revisions_accepted' = <<>>
    /\ revisions_todo' = <<>>
    /\ scanned' = 0
    /\ pc' = "rs_scan"
    /\ UNCHANGED <<args, ncalls, rsvars, report, columns, column_phids, maniphest_tasks,
                   report_string, results, settings, outputs>>

FetchRevisionsFails ==
    /\ pc = "rs_fetch"
    /\ calls' = Append(calls, [fn |-> "fetch_differential_revisions", arg |-> <<>>])
    /\ Raise
    /\ UNCHANGED rsvars

(* mutant: the accumulator assigned instead of extended *)
AddUsersOverwriting(phids_so_far, phids) == phids

(* _add_users *)
AddUsers(phids_so_far, phids) == phids_so_far \o phids

(* _add_repo *)
AddRepo(phids_so_far, phid) == Append(phids_so_far, phid)

(* mutant: the WIP test made before the acceptance test *)
BucketWipFirst(revision) ==
    IF revision.is_wip THEN "skip"
    ELSE IF revision.meets_acceptance_criteria THEN "accepted"
    ELSE "todo"

(* which list the loop body appends the revision to *)
Bucket(revision) ==
    IF revision.meets_acceptance_criteria THEN "accepted"
    ELSE IF revision.is_wip THEN "skip"
    ELSE "todo"

(* mutant: the user lookup issued inside the loop, once per revision *)
ScanRevisionLookingUp ==
    /\ pc = "rs_scan"
    /\ scanned < Len(active_revisions)
    /\ LET revision == active_revisions[scanned + 1] IN
        /\ revisions_accepted' =
              IF Bucket(revision) = "accepted"
              THEN Append(revisions_accepted, revision) ELSE revisions_accepted
        /\ revisions_todo' =
              IF Bucket(revision) = "todo"
              THEN Append(revisions_todo, revision) ELSE revisions_todo
        /\ user_phids' =
              AddUsers(AddUsers(user_phids, revision.reviewer_phids), <<revision.author_phid>>)
        /\ repo_phids' = AddRepo(repo_phids, revision.repo_phid)
        /\ calls' = Append(calls, [fn |-> "get_users_by_phid",
                                   arg |-> <<revision.author_phid>>])
    /\ scanned' = scanned + 1
    /\ UNCHANGED <<pc, args, ncalls, repos_lookup, users_lookup, active_revisions,
                   report, columns, column_phids, maniphest_tasks, report_string,
                   results, settings, outputs>>

(* one iteration of the for loop over active_revisions *)
ScanRevision ==
    /\ pc = "rs_scan"
    /\ scanned < Len(active_revisions)
    /\ LET revision == active_revisions[scanned + 1] IN
        /\ revisions_accepted' =
              IF Bucket(revision) = "accepted"
              THEN Append(revisions_accepted, revision) ELSE revisions_accepted
        /\ revisions_todo' =
              IF Bucket(revision) = "todo"
              THEN Append(revisions_todo, revision) ELSE revisions_todo
        /\ user_phids' =
              AddUsers(AddUsers(user_phids, revision.reviewer_phids), <<revision.author_phid>>)
        /\ repo_phids' = AddRepo(repo_phids, revision.repo_phid)
    /\ scanned' = scanned + 1
    /\ UNCHANGED <<pc, args, ncalls, repos_lookup, users_lookup, active_revisions,
                   report, columns, column_phids, maniphest_tasks, report_string, calls,
                   results, settings, outputs>>

(* _lookup_phids, first statement: get_users_by_phid returns *)
LookupUsers ==
    /\ pc = "rs_scan"
    /\ scanned = Len(active_revisions)
    /\ calls' = Append(calls, [fn |-> "get_users_by_phid", arg |-> user_phids])
    /\ \E table \in UsersLookups(user_phids) : users_lookup' = table
    /\ pc' = "rs_lookup_repos"
    /\ UNCHANGED <<args, ncalls, repo_phids, user_phids, repos_lookup, locals,
                   report_string, results, settings, outputs>>

LookupUsersFails ==
    /\ pc = "rs_scan"
    /\ scanned = Len(active_revisions)
    /\ calls' = Append(calls, [fn |-> "get_users_by_phid", arg |-> user_phids])
    /\ Raise
    /\ UNCHANGED rsvars

(* _lookup_phids, second statement: get_repos_by_phid returns *)
LookupRepos ==
    /\ pc = "rs_lookup_repos"
    /\ calls' = Append(calls, [fn |-> "get_repos_by_phid", arg |-> repo_phids])
    /\ \E table \in ReposLookups(repo_phids) : repos_lookup' = table
    /\ pc' = "rs_render_accepted"
    /\ UNCHANGED <<args, ncalls, repo_phids, user_phids, users_lookup, locals,
                   report_string, results, settings, outputs>>

LookupReposFails ==
    /\ pc = "rs_lookup_repos"
    /\ calls' = Append(calls, [fn |-> "get_repos_by_phid", arg |-> repo_phids])
    /\ Raise
    /\ UNCHANGED rsvars

(* the two list comprehensions and the first f-string of                   *)
(* _format_and_append_revision_to_report                                   *)
Backticked(phids) == [k \in 1..Len(phids) |-> "<bq>" \o users_lookup[phids[k]].name \o "<bq>"]

(* a subscript of a lookup table raises KeyError *)
LookupMisses(revision) ==
    \/ revision.repo_phid \notin DOMAIN repos_lookup
    \/ revision.author_phid \notin DOMAIN users_lookup
    \/ \E k \in 1..Len(revision.acceptor_phids) :
          revision.acceptor_phids[k] \notin DOMAIN users_lookup
    \/ \E k \in 1..Len(revision.blocker_phids) :
          revision.blocker_phids[k] \notin DOMAIN users_lookup

(* mutant: the separator appended whether or not an accepted clause precedes *)
ReviewersMsgAlwaysSeparated(acceptors, blockers) ==
    (IF Len(acceptors) > 0
     THEN <<":white_check_mark: accepted by ">> \o JoinTokens(", ", acceptors)
     ELSE <<>>)
    \o (IF Len(blockers) > 0
        THEN <<"; ", ":no_entry_sign: blocked by ">> \o JoinTokens(", ", blockers)
        ELSE <<>>)

ReviewersMsg(acceptors, blockers) ==
    (IF Len(acceptors) > 0
     THEN <<":white_check_mark: accepted by ">> \o JoinTokens(", ", acceptors)
     ELSE <<>>)
    \o (IF Len(blockers) > 0
        THEN (IF Len(acceptors) > 0 THEN <<"; ">> ELSE <<>>)
             \o <<":no_entry_sign: blocked by ">> \o JoinTokens(", ", blockers)
        ELSE <<>>)

(* _format_and_append_revision_to_report: the lines it appends *)
FormatRevision(revision, count) ==
    LET repo == repos_lookup[revision.repo_phid]
        author == users_lookup[revision.author_phid]
        acceptors == Backticked(revision.acceptor_phids)
        blockers == Backticked(revision.blocker_phids)
        reviewers_msg == ReviewersMsg(acceptors, blockers)
    IN  << <<ToString(count), ". _", revision.title, "_ (<", revision.url, "|",
             revision.revision_id, ">) by <bq>", author.name, "<bq> on <bq>",
             repo.readable_name, "<bq>">> >>
        \o (IF Len(reviewers_msg) > 0 THEN << <<"    ">> \o reviewers_msg >> ELSE <<>>)
        \o << <<>> >>

(* the for loop of a section: count += 1, then format and append *)
RECURSIVE FormatRevisions(_, _)
FormatRevisions(revisions, count) ==
    IF revisions = <<>> THEN <<>>
    ELSE FormatRevision(Head(revisions), count + 1)
         \o FormatRevisions(Tail(revisions), count + 1)

AcceptedHeader == <<":white_check_mark: *Accepted and Ready to Land*: _(oldest first)_">>
TodoHeader == <<":warning: *Needs Review*: _(newest first)_">>

(* mutant: the report list kept from the previous call *)
ReportKeptAcrossCalls == report

(* report = [] *)
NewReport == <<>>

(* report = [] and the accepted section *)
RenderAccepted ==
    /\ pc = "rs_render_accepted"
    /\ IF Len(revisions_accepted) > 0
       THEN /\ \A k \in 1..Len(revisions_accepted) : ~LookupMisses(revisions_accepted[k])
            /\ report' = NewReport
                          \o <<AcceptedHeader>>
                          \o FormatRevisions(SortedAscending(revisions_accepted), 0)
                          \o << <<>> >>
       ELSE report' = NewReport
    /\ pc' = "rs_render_todo"
    /\ UNCHANGED <<args, ncalls, rsvars, active_revisions, scanned, revisions_accepted,
                   revisions_todo, columns, column_phids, maniphest_tasks, report_string, calls,
                   results, settings, outputs>>

(* the needs-review section *)
RenderTodo ==
    /\ pc = "rs_render_todo"
    /\ IF Len(revisions_todo) > 0
       THEN /\ \A k \in 1..Len(revisions_todo) : ~LookupMisses(revisions_todo[k])
            /\ report' = report
                          \o (IF Len(revisions_accepted) > 0 THEN << <<>> >> ELSE <<>>)
                          \o <<TodoHeader>>
                          \o FormatRevisions(SortedDescending(revisions_todo), 0)
                          \o << <<>> >>
       ELSE report' = report
    /\ pc' = "rs_return"
    /\ UNCHANGED <<args, ncalls, rsvars, active_revisions, scanned, revisions_accepted,
                   revisions_todo, columns, column_phids, maniphest_tasks, report_string, calls,
                   results, settings, outputs>>

(* a lookup table lacks an identifier the section's loop subscripts it with *)
RenderRaisesKeyError ==
    /\ \/ /\ pc = "rs_render_accepted"
          /\ \E k \in 1..Len(revisions_accepted) : LookupMisses(revisions_accepted[k])
       \/ /\ pc = "rs_render_todo"
          /\ \E k \in 1..Len(revisions_todo) : LookupMisses(revisions_todo[k])
    /\ Raise
    /\ UNCHANGED <<rsvars, calls>>

(* report_string = '\n'.join(report).encode('utf-8').decode('utf-8'); return *)
ReturnRevisionReport ==
    /\ pc = "rs_return"
    /\ report_string' = <<JoinLines(report)>>
    /\ results' = results \cup
          {[fetched |-> active_revisions, lookups |-> <<users_lookup, repos_lookup>>,
            text |-> JoinLines(report)]}
    /\ pc' = "returned"
    /\ UNCHANGED <<args, ncalls, rsvars, locals, calls, settings, outputs>>

(* ----------------------------------------------------------------------- *)
(* UpcomingProjectTasksDueReport.generate_report                           *)
(* ----------------------------------------------------------------------- *)

(* mutant: the column lookup called without the test of self.columns *)
ResolveColumnsUnconditionally ==
    /\ pc = "up_columns"
    /\ calls' = Append(calls, [fn |-> "get_project_columns_by_project_name",
                               arg |-> settings.column_names])
    /\ \E returned \in ColumnLists(settings.column_names) :
          /\ columns' = returned
          /\ column_phids' = [k \in 1..Len(returned) |-> returned[k].phid]
    /\ pc' = "up_fetch"
    /\ UNCHANGED <<args, ncalls, rsvars, active_revisions, scanned, revisions_accepted,
                   revisions_todo, report, maniphest_tasks, report_string, results,
                   settings, outputs>>

(* if self.columns: ... else: column_phids = [] *)
ResolveColumns ==
    /\ pc = "up_columns"
    /\ IF Len(settings.column_names) > 0
       THEN /\ calls' = Append(calls, [fn |-> "get_project_columns_by_project_name",
                                       arg |-> settings.column_names])
            /\ \E returned \in ColumnLists(settings.column_names) :
                  /\ columns' = returned
                  /\ column_phids' = [k \in 1..Len(returned) |-> returned[k].phid]
       ELSE /\ column_phids' = <<>>
            /\ UNCHANGED <<columns, calls>>
    /\ pc' = "up_fetch"
    /\ UNCHANGED <<args, ncalls, rsvars, active_revisions, scanned, revisions_accepted,
                   revisions_todo, report, maniphest_tasks, report_string, results,
                   settings, outputs>>

ResolveColumnsFails ==
    /\ pc = "up_columns"
    /\ Len(settings.column_names) > 0
    /\ calls' = Append(calls, [fn |-> "get_project_columns_by_project_name",
                               arg |-> settings.column_names])
    /\ Raise
    /\ UNCHANGED rsvars

(* get_maniphest_tasks_by_project_name returns *)
FetchTasks(fetchable) ==
    /\ pc = "up_fetch"
    /\ calls' = Append(calls, [fn |-> "get_maniphest_tasks_by_project_name",
                               arg |-> column_phids])
    /\ \E tasks \in fetchable : maniphest_tasks' = tasks
    /\ pc' = "up_render"
    /\ UNCHANGED <<args, ncalls, rsvars, active_revisions, scanned, revisions_accepted,
                   revisions_todo, report, columns, column_phids, report_string, results,
                   settings, outputs>>

FetchTasksFails ==
    /\ pc = "up_fetch"
    /\ calls' = Append(calls, [fn |-> "get_maniphest_tasks_by_project_name",
                               arg |-> column_phids])
    /\ Raise
    /\ UNCHANGED rsvars

(* mutant: the exclusion set not consulted *)
ShouldIncludeByPredicatesOnly(task) ==
    ~ \E k \in 1..Len(settings.custom_exclusions) :
         CustomExclusion(settings.custom_exclusions[k], task)

(* _should_include *)
ShouldInclude(task) ==
    /\ task.id_ \notin settings.excluded_tasks
    /\ ~ \E k \in 1..Len(settings.custom_exclusions) :
            CustomExclusion(settings.custom_exclusions[k], task)

TasksHeader ==
    <<"*", settings.project_name, " - ">> \o JoinTokens(", ", settings.column_names)
       \o <<" - Tasks Due Soon*">>

(* the for loop over the filtered tasks: count += 1, then append the line *)
RECURSIVE FormatTasks(_, _)
FormatTasks(tasks, count) ==
    IF tasks = <<>> THEN <<>>
    ELSE << <<ToString(count + 1), ". _", Head(tasks).name, "_ (<", Head(tasks).url, "|",
              Head(tasks).task_id, ">)">> >>
         \o FormatTasks(Tail(tasks), count + 1)

(* filter, render, join and return *)
RenderTasks ==
    /\ pc = "up_render"
    /\ LET tasks == SelectSeq(maniphest_tasks, ShouldInclude)
           lines == NewReport \o <<TasksHeader>> \o FormatTasks(tasks, 0)
       IN  /\ report' = lines
           /\ report_string' = <<JoinLines(lines)>>
           /\ results' = results \cup
                 {[fetched |-> maniphest_tasks, lookups |-> <<>>, text |-> JoinLines(lines)]}
    /\ pc' = "returned"
    /\ UNCHANGED <<args, ncalls, rsvars, active_revisions, scanned, revisions_accepted,
                   revisions_todo, columns, column_phids, maniphest_tasks, calls, settings, outputs>>

(* ----------------------------------------------------------------------- *)
(* Callers of generate_report                                              *)
(* ----------------------------------------------------------------------- *)

(* PhablyticsCLI.execute after generate_report returned *)
Emit ==
    /\ pc = "returned"
    /\ IF args.slack
       THEN /\ slack_messages' = Append(slack_messages, report_string[1])
            /\ stdout' = stdout
       ELSE /\ stdout' = Append(stdout, report_string[1])
            /\ slack_messages' = slack_messages
    /\ pc' = "done"
    /\ UNCHANGED <<args, ncalls, rsvars, locals, report_string, calls, results, settings>>

(* a caller that holds the instance calls generate_report on it again *)
Reinvoke ==
    /\ pc = "returned"
    /\ ncalls < MaxCalls
    /\ EnterGenerateReport
    /\ pc' = IF args.report_type = "RevisionStatus" THEN "rs_fetch" ELSE "up_columns"
    /\ UNCHANGED <<args, rsvars, results, settings, outputs>>

(* a caller constructs a new instance of the class and calls generate_report *)
Reinstantiate ==
    /\ pc = "returned"
    /\ ncalls < MaxCalls
    /\ args.report_type = "RevisionStatus"
    /\ NewRevisionStatusReport
    /\ EnterGenerateReport
    /\ pc' = "rs_fetch"
    /\ UNCHANGED <<args, results, settings, outputs>>

Next(attrSet, maxLen, fetchableTasks, configurable) ==
    \/ Execute(configurable)
    \/ FetchRevisions(attrSet, maxLen)
    \/ FetchRevisionsFails
    \/ ScanRevision
    \/ LookupUsers
    \/ LookupUsersFails
    \/ LookupRepos
    \/ LookupReposFails
    \/ RenderAccepted
    \/ RenderTodo
    \/ RenderRaisesKeyError
    \/ ReturnRevisionReport
    \/ ResolveColumns
    \/ ResolveColumnsFails
    \/ FetchTasks(fetchableTasks)
    \/ FetchTasksFails
    \/ RenderTasks
    \/ Emit

(* One run of the command line, revisions varying in timestamp and flags. *)
NextStatus == Next(StatusAttrs, MaxRevisions, TaskLists, Settings)
Spec == Init /\ [][NextStatus]_vars

(* One run of the command line, revisions varying in their identifier lists. *)
NextReview == Next(ReviewAttrs, MaxReviewedRevisions, TaskLists, Settings)
SpecReview == Init /\ [][NextReview]_vars

(* Repeated generate_report calls in one process. *)
NextReuse ==
    \/ Next(ReuseAttrs, MaxReusedRevisions, ReuseTaskLists, ReuseSettings)
    \/ Reinvoke
    \/ Reinstantiate
SpecReuse == Init /\ [][NextReuse]_vars

(* ----------------------------------------------------------------------- *)
(* Reading a returned text back.                                           *)
(* ----------------------------------------------------------------------- *)

RECURSIVE SplitLines(_)
SplitLines(text) ==
    IF \E i \in 1..Len(text) : text[i] = "\n"
    THEN LET i == CHOOSE i \in 1..Len(text) :
                     text[i] = "\n" /\ \A j \in 1..(i - 1) : text[j] # "\n"
         IN  <<SubSeq(text, 1, i - 1)>> \o SplitLines(SubSeq(text, i + 1, Len(text)))
    ELSE <<text>>

(* index of the first line equal to header, 0 when there is none *)
IndexOfLine(lines, header) ==
    IF \E i \in 1..Len(lines) : lines[i] = header
    THEN CHOOSE i \in 1..Len(lines) : lines[i] = header /\ \A j \in 1..(i - 1) : lines[j] # header
    ELSE 0

IsTitleLine(line) == Len(line) = 12 /\ line[2] = ". _" /\ line[4] = "_ (<"
IsStatusLine(line) == Len(line) >= 1 /\ line[1] = "    "
IsTaskLine(line) == Len(line) = 8 /\ line[2] = ". _" /\ line[8] = ">)"

(* index of the accepted header, the needs-review header (0: absent) *)
AcceptedAt(lines) == IndexOfLine(lines, AcceptedHeader)
TodoAt(lines) == IndexOfLine(lines, TodoHeader)

(* the title lines of the accepted section, of the needs-review section *)
AcceptedTitles(text) ==
    LET lines == SplitLines(text)
        last == IF TodoAt(lines) > 0 THEN TodoAt(lines) - 1 ELSE Len(lines)
    IN  IF AcceptedAt(lines) = 0 THEN <<>>
        ELSE SelectSeq(SubSeq(lines, AcceptedAt(lines) + 1, last), IsTitleLine)

TodoTitles(text) ==
    LET lines == SplitLines(text)
    IN  IF TodoAt(lines) = 0 THEN <<>>
        ELSE SelectSeq(SubSeq(lines, TodoAt(lines) + 1, Len(lines)), IsTitleLine)

ListedIds(titles) == {titles[k][7] : k \in 1..Len(titles)}

FetchedRevision(revision_id) ==
    CHOOSE r \in Range(active_revisions) : r.revision_id = revision_id

RevisionReportReturned == args.report_type = "RevisionStatus" /\ report_string # <<>>
TaskReportReturned == args.report_type = "UpcomingProjectTasksDue" /\ report_string # <<>>

CallFns == [k \in 1..Len(calls) |-> calls[k].fn]

(* ----------------------------------------------------------------------- *)
(* Properties.                                                             *)
(* ----------------------------------------------------------------------- *)

Occurs(r, revisions) == \E i \in 1..Len(revisions) : revisions[i] = r

(* C1: each revision the loop has passed is in exactly one bucket: in the  *)
(* accepted list and not the needs-review list when it meets the           *)
(* acceptance criteria, whatever its WIP flag; in neither when it does not *)
(* and is WIP; otherwise in the needs-review list only.  The two lists are *)
(* disjoint and hold exactly the non-skipped revisions, and the returned   *)
(* text lists exactly those revisions in the two sections.                 *)
C1_ThreeBuckets ==
    /\ \A k \in 1..scanned :
          LET r == active_revisions[k] IN
          IF r.meets_acceptance_criteria
          THEN Occurs(r, revisions_accepted) /\ ~Occurs(r, revisions_todo)
          ELSE IF r.is_wip
          THEN ~Occurs(r, revisions_accepted) /\ ~Occurs(r, revisions_todo)
          ELSE Occurs(r, revisions_todo) /\ ~Occurs(r, revisions_accepted)
    /\ Range(revisions_accepted) \cap Range(revisions_todo) = {}
    /\ Len(revisions_accepted) + Len(revisions_todo) =
          Cardinality({k \in 1..scanned :
              active_revisions[k].meets_acceptance_criteria \/ ~active_revisions[k].is_wip})
    /\ RevisionReportReturned =>
          LET text == report_string[1]
              met == {r \in Range(active_revisions) : r.meets_acceptance_criteria}
              open == {r \in Range(active_revisions) :
                          ~r.meets_acceptance_criteria /\ ~r.is_wip}
          IN  /\ ListedIds(AcceptedTitles(text)) = {r.revision_id : r \in met}
              /\ Len(AcceptedTitles(text)) = Cardinality(met)
              /\ ListedIds(TodoTitles(text)) = {r.revision_id : r \in open}
              /\ Len(TodoTitles(text)) = Cardinality(open)

C1_Witness ==
    /\ RevisionReportReturned
    /\ \E r \in Range(active_revisions) : r.meets_acceptance_criteria /\ r.is_wip
    /\ \E r \in Range(active_revisions) : ~r.meets_acceptance_criteria /\ r.is_wip
    /\ \E r \in Range(active_revisions) : ~r.meets_acceptance_criteria /\ ~r.is_wip

(* C2: in the returned text the accepted section lists its revisions by    *)
(* non-decreasing modification timestamp, the needs-review section by      *)
(* non-increasing modification timestamp, and the k-th revision listed in  *)
(* a section carries the number k, whatever the order of the fetch.        *)
C2_SectionOrder ==
    RevisionReportReturned =>
        LET accepted == AcceptedTitles(report_string[1])
            todo == TodoTitles(report_string[1])
            Ts(line) == FetchedRevision(line[7]).modified_ts
        IN  /\ Len(accepted) = Len(revisions_accepted)
            /\ Len(todo) = Len(revisions_todo)
            /\ \A k \in 1..Len(accepted) : accepted[k][1] = ToString(k)
            /\ \A k \in 1..Len(todo) : todo[k][1] = ToString(k)
            /\ \A k \in 1..(Len(accepted) - 1) : Ts(accepted[k]) <= Ts(accepted[k + 1])
            /\ \A k \in 1..(Len(todo) - 1) : Ts(todo[k]) >= Ts(todo[k + 1])

C2_Witness ==
    /\ RevisionReportReturned
    /\ Len(revisions_accepted) = 2
    /\ revisions_accepted[1].modified_ts > revisions_accepted[2].modified_ts
    /\ Len(revisions_todo) = 1

RevisionPipeline ==
    <<"fetch_differential_revisions", "get_users_by_phid", "get_repos_by_phid">>

(* C6: a revision report issues its collaborator calls in the order fetch, *)
(* user lookup, repository lookup, each once: no lookup while the loop     *)
(* runs, the user lookup only after the loop has passed every fetched      *)
(* revision, and no rendering before both lookups returned.                *)
C6_CallOrder ==
    args.report_type = "RevisionStatus" =>
        /\ Len(calls) <= 3
        /\ CallFns = SubSeq(RevisionPipeline, 1, Len(calls))
        /\ pc = "rs_scan" => Len(calls) = 1
        /\ (Len(calls) >= 2 /\ pc # "aborted") => scanned = Len(active_revisions)
        /\ Len(calls) >= 2 => calls[2].arg = user_phids
        /\ Len(calls) >= 3 => calls[3].arg = repo_phids
        /\ (report # <<>> \/ report_string # <<>>) => Len(calls) = 3
        /\ pc \in {"rs_render_accepted", "rs_render_todo", "rs_return", "returned"}
              => Len(calls) = 3

C6_Witness ==
    /\ RevisionReportReturned
    /\ active_revisions = <<>>
    /\ CallFns = RevisionPipeline

(* C3: the numbered lines after the header are exactly the fetched tasks   *)
(* whose identifier is not in the exclusion set and for which no custom    *)
(* exclusion predicate is true, in the order of the fetch, numbered from 1.*)
C3_TaskFilter ==
    TaskReportReturned =>
        LET lines == SplitLines(report_string[1])
            listed == Tail(lines)
            Excluded(t) ==
                \/ t.id_ \in settings.excluded_tasks
                \/ \E k \in 1..Len(settings.custom_exclusions) :
                      CustomExclusion(settings.custom_exclusions[k], t)
            surviving == {t \in Range(maniphest_tasks) : ~Excluded(t)}
            FetchedAt(task_id) ==
                CHOOSE i \in 1..Len(maniphest_tasks) : maniphest_tasks[i].task_id = task_id
        IN  /\ lines[1] = TasksHeader
            /\ \A k \in 1..Len(listed) : IsTaskLine(listed[k]) /\ listed[k][1] = ToString(k)
            /\ ListedIds(listed) = {t.task_id : t \in surviving}
            /\ Len(listed) = Cardinality(surviving)
            /\ \A j, k \in 1..Len(listed) :
                  j < k => FetchedAt(listed[j][7]) < FetchedAt(listed[k][7])

C3_Witness ==
    /\ TaskReportReturned
    /\ Len(settings.custom_exclusions) > 0
    /\ \E t \in Range(maniphest_tasks) :
          /\ t.id_ \in settings.excluded_tasks
          /\ \A k \in 1..Len(settings.custom_exclusions) :
                ~CustomExclusion(settings.custom_exclusions[k], t)
    /\ \E t \in Range(maniphest_tasks) :
          /\ t.id_ \notin settings.excluded_tasks
          /\ \E k \in 1..Len(settings.custom_exclusions) :
                CustomExclusion(settings.custom_exclusions[k], t)
    /\ Len(SplitLines(report_string[1])) = 2
    /\ maniphest_tasks[1].id_ > maniphest_tasks[Len(maniphest_tasks)].id_

ReportRun ==
    /\ ~args.test /\ ~args.adhoc /\ ~args.whoami
    /\ args.report_type \in ReportTypeChoices

(* C5: a run in which a collaborator call or a table lookup fails returns  *)
(* no text and prints and sends nothing; no collaborator is called twice;  *)
(* a text is returned only after every call of the report succeeded and    *)
(* every rendered revision was found in the tables; what is printed or     *)
(* sent is the returned text, whole.                                       *)
C5_AllOrNothing ==
    /\ pc = "aborted" =>
          report_string = <<>> /\ stdout = <<>> /\ slack_messages = <<>>
    /\ \A i, j \in 1..Len(calls) : i # j => calls[i].fn # calls[j].fn
    /\ RevisionReportReturned =>
          /\ CallFns = RevisionPipeline
          /\ \A r \in Range(revisions_accepted) \cup Range(revisions_todo) : ~LookupMisses(r)
          /\ report_string[1] = JoinLines(report)
    /\ TaskReportReturned =>
          /\ Len(calls) >= 1
          /\ calls[Len(calls)].fn = "get_maniphest_tasks_by_project_name"
          /\ Len(settings.column_names) > 0 =>
                CallFns = <<"get_project_columns_by_project_name",
                            "get_maniphest_tasks_by_project_name">>
    /\ ReportRun =>
          /\ stdout \in {<<>>} \cup {<<report_string[k]>> : k \in 1..Len(report_string)}
          /\ slack_messages \in {<<>>} \cup {<<report_string[k]>> : k \in 1..Len(report_string)}
          /\ (stdout # <<>> \/ slack_messages # <<>>) => pc = "done"

C5_Witness ==
    /\ pc = "aborted"
    /\ args.report_type = "RevisionStatus"
    /\ CallFns = RevisionPipeline

(* C9: with no column names configured the column lookup is never called   *)
(* and the task fetch is given an empty identifier list; with column names *)
(* configured the lookup is called once, before the task fetch, and the    *)
(* fetch is given the identifiers of the returned columns in their order.  *)
C9_ColumnLookup ==
    args.report_type = "UpcomingProjectTasksDue" =>
        LET lookups == {k \in 1..Len(calls) :
                           calls[k].fn = "get_project_columns_by_project_name"}
            fetches == {k \in 1..Len(calls) :
                           calls[k].fn = "get_maniphest_tasks_by_project_name"}
        IN  /\ Cardinality(lookups) <= 1
            /\ Cardinality(fetches) <= 1
            /\ Len(settings.column_names) = 0 =>
                  /\ lookups = {}
                  /\ \A k \in fetches : calls[k].arg = <<>>
            /\ Len(settings.column_names) > 0 =>
                  \A k \in fetches :
                      /\ lookups = {k - 1}
                      /\ calls[k - 1].arg = settings.column_names
                      /\ pc # "aborted" =>
                            calls[k].arg = [i \in 1..Len(columns) |-> columns[i].phid]

C9_Witness ==
    /\ TaskReportReturned
    /\ Len(settings.column_names) = 2
    /\ Len(columns) = 2
    /\ columns[1].name = settings.column_names[2]
    /\ calls[2].arg = <<columns[1].phid, columns[2].phid>>

AcceptedClause == ":white_check_mark: accepted by "
BlockedClause == ":no_entry_sign: blocked by "
Positions(line, token) == {j \in 1..Len(line) : line[j] = token}

(* C7: a rendered revision has a reviewer-status line if and only if it    *)
(* has an acceptor or a blocker; without either the title line is followed *)
(* by a blank line; the accepted clause is there exactly when there are    *)
(* acceptors, the blocked clause exactly when there are blockers, and the  *)
(* separator "; " exactly when there are both, between the two clauses.    *)
C7_StatusLine ==
    RevisionReportReturned =>
        LET lines == SplitLines(report_string[1]) IN
        \A i \in 1..Len(lines) :
            IsTitleLine(lines[i]) =>
                LET r == FetchedRevision(lines[i][7])
                    hasAcceptors == Len(r.acceptor_phids) > 0
                    hasBlockers == Len(r.blocker_phids) > 0
                    next == lines[i + 1]
                IN  /\ i + 1 <= Len(lines)
                    /\ IsStatusLine(next) <=> (hasAcceptors \/ hasBlockers)
                    /\ ~IsStatusLine(next) => next = <<>>
                    /\ IsStatusLine(next) =>
                          /\ lines[i + 2] = <<>>
                          /\ Positions(next, AcceptedClause) =
                                (IF hasAcceptors THEN {2} ELSE {})
                          /\ Cardinality(Positions(next, BlockedClause)) =
                                (IF hasBlockers THEN 1 ELSE 0)
                          /\ Cardinality(Positions(next, "; ")) =
                                (IF hasAcceptors /\ hasBlockers THEN 1 ELSE 0)
                          /\ (hasBlockers /\ ~hasAcceptors) =>
                                Positions(next, BlockedClause) = {2}
                          /\ (hasBlockers /\ hasAcceptors) =>
                                \E j \in Positions(next, "; ") :
                                    /\ j > 2
                                    /\ Positions(next, BlockedClause) = {j + 1}

C7_Witness ==
    /\ RevisionReportReturned
    /\ \E r \in Range(revisions_accepted) \cup Range(revisions_todo) :
          Len(r.acceptor_phids) = 2 /\ Len(r.blocker_phids) > 0

LookupsExact ==
    /\ DOMAIN users_lookup = Range(user_phids)
    /\ DOMAIN repos_lookup = Range(repo_phids)

AtRendering == pc \in {"rs_render_accepted", "rs_render_todo"}

RenderedRevisions == Range(revisions_accepted) \cup Range(revisions_todo)

RenderingFindsAll ==
    \A r \in RenderedRevisions :
        /\ r.author_phid \in Range(user_phids)
        /\ Range(r.acceptor_phids) \cup Range(r.blocker_phids) \subseteq Range(user_phids)
        /\ r.repo_phid \in Range(repo_phids)
        /\ ~LookupMisses(r)

ReviewersCoverStatuses ==
    \A r \in RenderedRevisions :
        Range(r.acceptor_phids) \cup Range(r.blocker_phids) \subseteq Range(r.reviewer_phids)

(* C10, as claimed: when each lookup returned an entry for exactly the     *)
(* identifiers it was given, the author, acceptors, blockers and           *)
(* repository of every accepted or needs-review revision were accumulated  *)
(* by the loop and are in the tables, so rendering has no lookup miss.     *)
C10_NoLookupMiss == (AtRendering /\ LookupsExact) => RenderingFindsAll

(* C10, amended: the same, for revisions whose acceptors and blockers are  *)
(* among their reviewers.                                                  *)
C10_NoLookupMissAmongReviewers ==
    (AtRendering /\ LookupsExact /\ ReviewersCoverStatuses) => RenderingFindsAll

C10_Witness ==
    /\ AtRendering
    /\ LookupsExact
    /\ ReviewersCoverStatuses
    /\ \E r \in RenderedRevisions :
          /\ Len(r.acceptor_phids) > 0
          /\ Len(r.blocker_phids) > 0
          /\ r.author_phid \notin Range(r.reviewer_phids)

RECURSIVE HarvestedUsers(_)
HarvestedUsers(revisions) ==
    IF revisions = <<>> THEN <<>>
    ELSE Head(revisions).reviewer_phids \o <<Head(revisions).author_phid>>
         \o HarvestedUsers(Tail(revisions))

HarvestedRepos(revisions) == [k \in 1..Len(revisions) |-> revisions[k].repo_phid]

(* C4: the identifier lists handed to the batch lookups of a call hold     *)
(* only the identifiers harvested from the revisions that call fetched.    *)
C4_FreshStatePerCall ==
    pc # "aborted" =>
        \A k \in 1..Len(calls) :
            /\ calls[k].fn = "get_users_by_phid" =>
                  calls[k].arg = HarvestedUsers(active_revisions)
            /\ calls[k].fn = "get_repos_by_phid" =>
                  calls[k].arg = HarvestedRepos(active_revisions)

(* C8: two completed calls that were given the same fetched data and the   *)
(* same lookup results returned the same text, on one instance or on two.  *)
C8_Deterministic ==
    \A a, b \in results :
        (a.fetched = b.fetched /\ a.lookups = b.lookups) => a.text = b.text

C8_Witness ==
    /\ pc = "returned"
    /\ ncalls = 2
    /\ args.report_type = "RevisionStatus"
    /\ Cardinality(results) = 1
    /\ Len(active_revisions) > 0
    /\ Len(repo_phids) = 2 * Len(active_revisions)

====
